---- MODULE Spec2Model ----
(***************************************************************************)
(* templatetag_sugar/parser.py as a state machine.                         *)
(*                                                                         *)
(* Parser.__call__ walks the declared grammar over the deque `bits`.  The  *)
(* recursion of the parse methods is an explicit call stack: one frame per *)
(* active parse call, one action per step of a parse method (its body up   *)
(* to the next nested call, or its handling of what the nested call        *)
(* returned or raised).  A text is a sequence of characters, so that       *)
(* str.split, "%"-formatting and " ".join are computed, not assumed.       *)
(***************************************************************************)
EXTENDS Integers, Sequences, FiniteSets, TLC

\* ---------------------------------------------------------------- bounds
\* longest tag invocation explored (tokens after the tag name)
MaxTokens == 3
\* a Sequence whose wrapped element succeeds without consuming never leaves
\* its loop and its result list grows for ever: the loop is explored up to
\* this many collected values
MaxResult == MaxTokens + 1

\* ----------------------------------------------------------------- texts
NoName == <<>>

TemplateSyntaxError == "TemplateSyntaxError"
IndexError == "IndexError"
ValueError == "ValueError"

\* the literal pieces of the format strings
Expected == <<" ", "e", "x", "p", "e", "c", "t", "e", "d", ",", " ">>
Found == <<" ", "f", "o", "u", "n", "d">>
HasSyntax == <<" ", "h", "a", "s", " ", "t", "h", "e", " ", "f", "o", "l", "l", "o", "w", "i", "n", "g", " ", "s", "y", "n", "t", "a", "x", ":", " ", "{", "%", " ">>
Close == <<" ", "%", "}">>
Arg == <<"<", "a", "r", "g", ">">>
Dots == <<"]", ".", ".", ".">>
Bar == <<" ", "|", " ">>

RECURSIVE join(_, _)
\* sep.join(items)
join(sep, items) ==
    IF items = <<>> THEN <<>>
    ELSE IF Len(items) = 1 THEN items[1]
    ELSE items[1] \o sep \o join(sep, Tail(items))

RECURSIVE split(_, _)
\* text.split(sep) for a one-character sep: the list of the pieces between
\* the separators (always at least one piece)
split(text, sep) ==
    IF \A k \in 1..Len(text) : text[k] # sep THEN <<text>>
    ELSE LET k == CHOOSE j \in 1..Len(text) :
                      /\ text[j] = sep
                      /\ \A h \in 1..(j - 1) : text[h] # sep
         IN  <<SubSeq(text, 1, k - 1)>> \o split(SubSeq(text, k + 1, Len(text)), sep)

\* --------------------------------------------------------- grammar nodes
\* every node has the same fields; `mapping` is the Choice's dictionary as
\* a list of (key, parts) items in iteration order
Node(kind, text, name, parts, mapping) ==
    [kind |-> kind, text |-> text, name |-> name, parts |-> parts, mapping |-> mapping]

Constant(text) == Node("Constant", text, NoName, <<>>, <<>>)
Variable(name) == Node("Variable", <<>>, name, <<>>, <<>>)
Name(name) == Node("Name", <<>>, name, <<>>, <<>>)
Model(name) == Node("Model", <<>>, name, <<>>, <<>>)
Optional(parts) == Node("Optional", <<>>, NoName, parts, <<>>)
Sequence(part, name) == Node("Sequence", <<>>, name, <<part>>, <<>>)
Choice(mapping, name) == Node("Choice", <<>>, name, <<>>, mapping)

Item(key, parts) == [key |-> key, parts |-> parts]

\* key in self.mapping
HasKey(mapping, key) == \E k \in 1..Len(mapping) : mapping[k].key = key

\* self.mapping[key]
Lookup(mapping, key) ==
    mapping[CHOOSE k \in 1..Len(mapping) : mapping[k].key = key].parts

\* [key for key in self.mapping]
Keys(mapping) == [k \in 1..Len(mapping) |-> mapping[k].key]

RECURSIVE syntaxOf(_)
\* part.syntax()
syntaxOf(node) ==
    LET each(parts) == [k \in 1..Len(parts) |-> syntaxOf(parts[k])]
        named == IF node.name # NoName THEN <<"<">> \o node.name \o <<">">>
                 ELSE Arg
    IN  CASE node.kind = "Constant" -> node.text
          [] node.kind = "Optional" ->
                <<"[">> \o join(<<" ">>, each(node.parts)) \o <<"]">>
          [] node.kind = "Sequence" ->
                <<"[">> \o syntaxOf(node.parts[1]) \o Dots
          [] node.kind = "Choice" ->
                join(Bar,
                     [k \in 1..Len(node.mapping) |->
                        node.mapping[k].key \o <<" ">>
                          \o join(<<" ">>, each(node.mapping[k].parts))])
          [] OTHER -> named

\* ------------------------------------------------------ captured values
Value(t, tok, items) == [t |-> t, tok |-> tok, items |-> items]

\* a capture is the triple (self, self.name, value)
Capture(node, value) == [self |-> node, name |-> node.name, value |-> value]

\* x[2] for x in val
Values(val) == [k \in 1..Len(val) |-> val[k].value]

\* parser.compile_filter(bit) of the host template engine: a filter
\* expression that ends in a dangling "|" does not compile
CompileFails(bit) == bit # <<>> /\ bit[Len(bit)] = "|"

compile_filter(bit) == Value("expr", bit, <<>>)

\* the models the host's registry knows, as (app, model)
Registry == {<< <<"p">>, <<"q">> >>}

\* cache.get_model(app, model) of django.db.models.loading: the model
\* class, or None for a model that is not registered
get_model(app, model) ==
    IF <<app, model>> \in Registry THEN Value("model", app \o <<".">> \o model, <<>>)
    ELSE Value("None", <<>>, <<>>)

\* ---------------------------------------------------------------- inputs
TagName == <<"t">>

\* "a" is the literal and the keyword of the grammars below, "x|" does not
\* compile, "p.q" names a registered model and "p.z" an unknown one
Tokens == { <<"a">>, <<"x", "|">>, <<"p", ".", "q">>, <<"p", ".", "z">> }

TokenSeqs == UNION { [1..n -> Tokens] : n \in 0..MaxTokens }

Leaves == { Constant(<<"a">>), Name(<<"n">>), Variable(NoName), Model(<<"m">>) }

Wrap(inner, first) ==
    { Optional(<<x>>) : x \in inner }
      \cup { Optional(<<y, x>>) : y \in first, x \in inner }
      \cup { Sequence(x, <<"s">>) : x \in inner }
      \cup { Choice(<<Item(<<"a">>, <<x>>)>>, <<"c">>) : x \in inner }

Level1 == Wrap(Leaves, Leaves)

Level2 == Wrap(Level1, { Name(<<"n">>) })

TwoKeys == Choice(<<Item(<<"a">>, <<Name(<<"n">>), Variable(NoName)>>),
                    Item(<<"p", ".", "q">>, <<>>)>>, <<"c">>)

Grammars ==
    { <<>>, <<TwoKeys>>, <<Optional(<<>>)>>, <<Sequence(TwoKeys, NoName)>> }
      \cup { <<x>> : x \in Leaves \cup Level1 \cup Level2 }
      \cup { <<x, y>> : x \in Leaves \cup Level1, y \in Leaves }
      \cup { <<y, x>> : y \in Leaves, x \in Level1 }

\* ----------------------------------------------------------------- state
VARIABLES
    syntax,     \* Parser.syntax: the declared grammar
    pc,         \* "ready" (constructed), "run" (inside __call__), "done"
    contents,   \* token.split_contents()
    tag_name,   \* __call__'s tag_name
    queues,     \* the live deques: queues[1] is `bits`, then one bits_copy
                \* per Optional.parse that is running, innermost last
    stack,      \* the active calls, Parser.__call__ first
    sig,        \* what the call that just ended handed to its caller
    outcome     \* what Parser.__call__ returned or raised

vars == <<syntax, pc, contents, tag_name, queues, stack, sig, outcome>>

\* --------------------------------------------------------- calls, results
\* One active parse call: the node (self), the deque it was given (q, an
\* index into queues), its locals (i: the position of `for part in ...`,
\* result, key, copy: the index of its bits_copy), and three history fields
\* that no step reads to decide what to do: bits0 (the deque's contents
\* when the call began), used (the tokens consumed by the nested calls that
\* succeeded) and rets (the captures the nested calls that succeeded
\* returned, in call order).
Frame(node, q, bits) ==
    [node |-> node, q |-> q, phase |-> "start", i |-> 1, result |-> <<>>,
     key |-> <<>>, copy |-> 0, bits0 |-> bits, used |-> <<>>, rets |-> <<>>]

\* Nothing in flight.
NoSig ==
    [kind |-> "none", none |-> FALSE, val |-> <<>>, exc |-> "", msg |-> <<>>,
     by |-> "", q |-> 0, q0 |-> <<>>, used |-> <<>>, origin |-> "",
     committed |-> FALSE]

\* `return val` (none: `return None`) out of the call f
Return(f, none, val, used) ==
    [NoSig EXCEPT !.kind = "return", !.none = none, !.val = val,
                  !.by = f.node.kind, !.q = f.q, !.q0 = f.bits0, !.used = used]

\* `raise exc(msg)` in the call f; origin names the statement that raised
Raise(f, exc, msg, origin) ==
    [NoSig EXCEPT !.kind = "raise", !.exc = exc, !.msg = msg, !.origin = origin,
                  !.by = f.node.kind, !.q = f.q, !.q0 = f.bits0]

\* an exception of a nested call that f does not catch leaves f as well;
\* committed records that it left a Choice whose keyword was consumed
Propagate(f, s) ==
    [s EXCEPT !.by = f.node.kind, !.q = f.q, !.q0 = f.bits0,
              !.committed = s.committed \/ f.node.kind = "Choice"]

NoOutcome == [kind |-> "none", pieces |-> <<>>, msg |-> <<>>]

\* SugarNode(pieces, self.function)
SugarNode(pieces) == [kind |-> "SugarNode", pieces |-> pieces, msg |-> <<>>]

Top == stack[Len(stack)]

\* the top call is a `kind` node's parse
At(kind) == pc = "run" /\ stack # <<>> /\ Top.node.kind = kind

\* ... and it is running (not waiting for what a nested call handed back)
Running(kind) == At(kind) /\ sig.kind = "none"

\* ... and a nested call has just handed it a result or an exception
Resumed(kind) == At(kind) /\ sig.kind # "none"

Enter(node, q) == stack' = Append(stack, Frame(node, q, queues[q]))

Leave == stack' = SubSeq(stack, 1, Len(stack) - 1)

Update(f) == stack' = [stack EXCEPT ![Len(stack)] = f]

\* bits.popleft() on the deque with index q
PopLeft(q) == queues' = [queues EXCEPT ![q] = Tail(queues[q])]

\* result.extend(val)
extend(result, val) == result \o val

\* the history of a nested call that succeeded
Took(f, s) == [f EXCEPT !.used = f.used \o s.used, !.rets = f.rets \o s.val]

\* the next round of `for part in ...`
Step(f) == [f EXCEPT !.i = f.i + 1]

\* mutant: IndexError left out of the except clause
CaughtSyntaxOnly(exc) == exc = TemplateSyntaxError

\* except (TemplateSyntaxError, IndexError)
Caught(exc) == exc \in {TemplateSyntaxError, IndexError}

Input == <<syntax, contents, tag_name>>

\* ------------------------------------------------------------------ Init
\* after Parser(syntax, function)
Init ==
    /\ syntax \in Grammars
    /\ pc = "ready"
    /\ contents = <<>>
    /\ tag_name = <<>>
    /\ queues = <<>>
    /\ stack = <<>>
    /\ sig = NoSig
    /\ outcome = NoOutcome

\* --------------------------------------------------------------- leaves
\* Constant.parse
ConstantParse ==
    /\ Running("Constant")
    /\ LET f == Top
           bits == queues[f.q]
       IN  IF bits = <<>>
           THEN /\ sig' = Raise(f, TemplateSyntaxError, <<>>, "Constant")
                /\ UNCHANGED queues
           ELSE IF bits[1] = f.node.text
           THEN /\ PopLeft(f.q)
                /\ sig' = Return(f, TRUE, <<>>, <<bits[1]>>)
           ELSE /\ sig' = Raise(f, TemplateSyntaxError,
                                f.node.text \o Expected \o bits[1] \o Found,
                                "Constant")
                /\ UNCHANGED queues
    /\ Leave
    /\ UNCHANGED <<Input, pc, outcome>>

\* Variable.parse
VariableParse ==
    /\ Running("Variable")
    /\ LET f == Top
           bits == queues[f.q]
       IN  IF bits = <<>>
           THEN /\ sig' = Raise(f, IndexError, <<>>, "popleft")
                /\ UNCHANGED queues
           ELSE /\ PopLeft(f.q)
                /\ IF CompileFails(bits[1])
                   THEN sig' = Raise(f, TemplateSyntaxError, <<>>, "compile_filter")
                   ELSE sig' = Return(f, FALSE,
                                      <<Capture(f.node, compile_filter(bits[1]))>>,
                                      <<bits[1]>>)
    /\ Leave
    /\ UNCHANGED <<Input, pc, outcome>>

\* Name.parse
NameParse ==
    /\ Running("Name")
    /\ LET f == Top
           bits == queues[f.q]
       IN  IF bits = <<>>
           THEN /\ sig' = Raise(f, IndexError, <<>>, "popleft")
                /\ UNCHANGED queues
           ELSE /\ PopLeft(f.q)
                /\ sig' = Return(f, FALSE,
                                 <<Capture(f.node, Value("raw", bits[1], <<>>))>>,
                                 <<bits[1]>>)
    /\ Leave
    /\ UNCHANGED <<Input, pc, outcome>>

\* Model.parse
ModelParse ==
    /\ Running("Model")
    /\ LET f == Top
           bits == queues[f.q]
       IN  IF bits = <<>>
           THEN /\ sig' = Raise(f, IndexError, <<>>, "popleft")
                /\ UNCHANGED queues
           ELSE /\ PopLeft(f.q)
                /\ LET pieces == split(bits[1], ".")
                   IN  IF Len(pieces) # 2
                       THEN sig' = Raise(f, ValueError, <<>>, "split")
                       ELSE sig' = Return(f, FALSE,
                                          <<Capture(f.node, get_model(pieces[1], pieces[2]))>>,
                                          <<bits[1]>>)
    /\ Leave
    /\ UNCHANGED <<Input, pc, outcome>>

\* -------------------------------------------------------------- Optional
\* copy(bits)
copy(bits) == bits

\* mutant: the parts are handed the real deque
PartQueueReal(f) == f.q

\* the deque Optional.parse hands to its parts: bits_copy
PartQueue(f) == f.copy

\* mutant: the operands exchanged
diffReversed(bits, bits_copy) == Len(bits_copy) - Len(bits)

\* diff = len(bits) - len(bits_copy)
diff(bits, bits_copy) == Len(bits) - Len(bits_copy)

\* for _ in xrange(n): bits.popleft()
PopN(bits, n) == IF n <= 0 THEN bits ELSE SubSeq(bits, n + 1, Len(bits))

\* the deques once the call f (an Optional.parse) is over: its bits_copy
\* is dropped and `bits` is what the call left in it
Without(f, bits) == [SubSeq(queues, 1, f.copy - 1) EXCEPT ![f.q] = bits]

\* Optional.parse, up to the loop: result = [], bits_copy = copy(bits)
OptionalParse ==
    /\ Running("Optional")
    /\ Top.phase = "start"
    /\ queues' = Append(queues, copy(queues[Top.q]))
    /\ Update([Top EXCEPT !.phase = "loop", !.copy = Len(queues) + 1])
    /\ UNCHANGED <<Input, pc, sig, outcome>>

\* val = part.parse(parser, bits_copy)
OptionalCallPart ==
    /\ Running("Optional")
    /\ Top.phase = "loop"
    /\ Top.i <= Len(Top.node.parts)
    /\ Enter(Top.node.parts[Top.i], PartQueue(Top))
    /\ UNCHANGED <<Input, pc, queues, sig, outcome>>

\* the part returned (continue / result.extend(val)) or raised (return
\* None when the exception is caught)
OptionalResume ==
    /\ Resumed("Optional")
    /\ LET f == Top
       IN  IF sig.kind = "return"
           THEN /\ Update(Step(Took([f EXCEPT !.result =
                            IF sig.none THEN f.result ELSE extend(f.result, sig.val)],
                          sig)))
                /\ sig' = NoSig
                /\ UNCHANGED queues
           ELSE /\ Leave
                /\ queues' = Without(f, queues[f.q])
                /\ sig' = IF Caught(sig.exc) THEN Return(f, TRUE, <<>>, <<>>)
                          ELSE Propagate(f, sig)
    /\ UNCHANGED <<Input, pc, outcome>>

\* after the loop: pop off the real deque what was popped off the copy
OptionalReturn ==
    /\ Running("Optional")
    /\ Top.phase = "loop"
    /\ Top.i > Len(Top.node.parts)
    /\ LET f == Top
           bits == queues[f.q]
           bits_copy == queues[f.copy]
       IN  /\ queues' = Without(f, PopN(bits, diff(bits, bits_copy)))
           /\ sig' = Return(f, FALSE, f.result, f.used)
    /\ Leave
    /\ UNCHANGED <<Input, pc, outcome>>

\* -------------------------------------------------------------- Sequence
\* the capture Sequence.parse returns
SequenceCapture(node, result) == <<Capture(node, Value("list", <<>>, result))>>

\* while True: val = self.part.parse(parser, bits)
SequenceCallPart ==
    /\ Running("Sequence")
    /\ Len(Top.result) < MaxResult
    /\ Enter(Top.node.parts[1], Top.q)
    /\ UNCHANGED <<Input, pc, queues, sig, outcome>>

\* the part returned (continue / result.extend(x[2] for x in val)) or
\* raised (break and return when the exception is caught)
SequenceResume ==
    /\ Resumed("Sequence")
    /\ LET f == Top
       IN  IF sig.kind = "return"
           THEN /\ Update(Took([f EXCEPT !.result =
                            IF sig.none THEN f.result
                            ELSE extend(f.result, Values(sig.val))],
                          sig))
                /\ sig' = NoSig
           ELSE /\ Leave
                /\ sig' = IF Caught(sig.exc)
                          THEN Return(f, FALSE, SequenceCapture(f.node, f.result), f.used)
                          ELSE Propagate(f, sig)
    /\ UNCHANGED <<Input, pc, queues, outcome>>

\* ---------------------------------------------------------------- Choice
\* the capture Choice.parse returns
ChoiceCapture(node, key, result) == <<Capture(node, Value("pair", key, result))>>

\* Choice.parse, up to the loop over the branch
ChoiceParse ==
    /\ Running("Choice")
    /\ Top.phase = "start"
    /\ LET f == Top
           bits == queues[f.q]
       IN  IF bits = <<>>
           THEN /\ sig' = Raise(f, TemplateSyntaxError, <<>>, "Choice")
                /\ Leave
                /\ UNCHANGED queues
           ELSE IF HasKey(f.node.mapping, bits[1])
           THEN /\ PopLeft(f.q)
                /\ Update([f EXCEPT !.phase = "loop", !.key = bits[1]])
                /\ UNCHANGED sig
           ELSE /\ sig' = Raise(f, TemplateSyntaxError,
                                <<"[">> \o join(Bar, Keys(f.node.mapping))
                                  \o <<"]">> \o Expected \o bits[1] \o Found,
                                "Choice")
                /\ Leave
                /\ UNCHANGED queues
    /\ UNCHANGED <<Input, pc, outcome>>

\* val = part.parse(parser, bits)
ChoiceCallPart ==
    /\ Running("Choice")
    /\ Top.phase = "loop"
    /\ Top.i <= Len(Lookup(Top.node.mapping, Top.key))
    /\ Enter(Lookup(Top.node.mapping, Top.key)[Top.i], Top.q)
    /\ UNCHANGED <<Input, pc, queues, sig, outcome>>

\* the part returned (continue / result.extend(x[2] for x in val)) or
\* raised: nothing here catches it
ChoiceResume ==
    /\ Resumed("Choice")
    /\ LET f == Top
       IN  IF sig.kind = "return"
           THEN /\ Update(Step(Took([f EXCEPT !.result =
                            IF sig.none THEN f.result
                            ELSE extend(f.result, Values(sig.val))],
                          sig)))
                /\ sig' = NoSig
           ELSE /\ Leave
                /\ sig' = Propagate(f, sig)
    /\ UNCHANGED <<Input, pc, queues, outcome>>

\* return [(self, self.name, (key, result))]
ChoiceReturn ==
    /\ Running("Choice")
    /\ Top.phase = "loop"
    /\ Top.i > Len(Lookup(Top.node.mapping, Top.key))
    /\ sig' = Return(Top, FALSE, ChoiceCapture(Top.node, Top.key, Top.result),
                     <<Top.key>> \o Top.used)
    /\ Leave
    /\ UNCHANGED <<Input, pc, queues, outcome>>

\* ---------------------------------------------------------------- Parser
\* "%s has the following syntax: {%% %s %s %%}" % (tag_name, tag_name,
\*     " ".join(part.syntax() for part in self.syntax))
Usage(name, parts) ==
    name \o HasSyntax \o name \o <<" ">>
         \o join(<<" ">>, [k \in 1..Len(parts) |-> syntaxOf(parts[k])]) \o Close

\* mutant: the leftover check never fires
LeftoverNever(bits) == FALSE

\* if bits:
Leftover(bits) == bits # <<>>

\* Parser.__call__, up to the loop: bits = deque(token.split_contents()),
\* tag_name = bits.popleft(), pieces = []
Call ==
    /\ pc = "ready"
    /\ \E toks \in TokenSeqs :
         LET bits == <<TagName>> \o toks
         IN  /\ contents' = bits
             /\ tag_name' = Head(bits)
             /\ queues' = <<Tail(bits)>>
             /\ stack' = <<Frame(Node("Parser", <<>>, NoName, syntax, <<>>), 1, Tail(bits))>>
    /\ pc' = "run"
    /\ UNCHANGED <<syntax, sig, outcome>>

\* result = part.parse(parser, bits)
ParserCallPart ==
    /\ Running("Parser")
    /\ Top.i <= Len(syntax)
    /\ Enter(syntax[Top.i], 1)
    /\ UNCHANGED <<Input, pc, queues, sig, outcome>>

\* the part returned (continue / pieces.extend(result)) or raised: the
\* exception leaves __call__
ParserResume ==
    /\ Resumed("Parser")
    /\ LET f == Top
       IN  IF sig.kind = "return"
           THEN /\ Update(Step(Took([f EXCEPT !.result =
                            IF sig.none THEN f.result ELSE extend(f.result, sig.val)],
                          sig)))
                /\ sig' = NoSig
                /\ UNCHANGED <<pc, outcome>>
           ELSE /\ pc' = "done"
                /\ outcome' = [kind |-> sig.exc, pieces |-> <<>>, msg |-> sig.msg]
                /\ UNCHANGED <<stack, sig>>
    /\ UNCHANGED <<Input, queues>>

\* after the loop: the leftover check, then SugarNode(pieces, self.function)
ParserReturn ==
    /\ Running("Parser")
    /\ Top.i > Len(syntax)
    /\ outcome' = IF Leftover(queues[1])
                  THEN [kind |-> TemplateSyntaxError, pieces |-> <<>>,
                        msg |-> Usage(tag_name, syntax)]
                  ELSE SugarNode(Top.result)
    /\ pc' = "done"
    /\ UNCHANGED <<Input, queues, stack, sig>>

\* ------------------------------------------------------------------ Next
Next ==
    \/ Call
    \/ ParserCallPart
    \/ ParserResume
    \/ ParserReturn
    \/ ConstantParse
    \/ VariableParse
    \/ NameParse
    \/ ModelParse
    \/ OptionalParse
    \/ OptionalCallPart
    \/ OptionalResume
    \/ OptionalReturn
    \/ SequenceCallPart
    \/ SequenceResume
    \/ ChoiceParse
    \/ ChoiceCallPart
    \/ ChoiceResume
    \/ ChoiceReturn

Spec == Init /\ [][Next]_vars

\* __call__ is one synchronous computation: a step that can be taken is taken
FairSpec == Spec /\ WF_vars(Next)

\* ---------------------------------------------------------------- claims
\* C1: Optional.parse is side-effect-free on failure.  The step in which
\* Optional.parse handles a sub-element that raised leaves the deque it was
\* given exactly as it was when the call began, and hands back no captures:
\* it returns None, or lets an exception it does not catch pass.
C1_OptionalFailureLeavesQueue ==
    [][(At("Optional") /\ sig.kind = "raise")
         => /\ queues'[Top.q] = Top.bits0
            /\ sig'.val = <<>>
            /\ sig'.kind = "return" => sig'.none]_vars

\* C1 witness: a nested combinator inside an Optional raised after earlier
\* sub-elements had consumed tokens from the snapshot.
C1_Witness ==
    /\ At("Optional")
    /\ sig.kind = "raise"
    /\ Top.i > 1
    /\ Len(queues[Top.copy]) < Len(queues[Top.q])
    /\ sig.by \in {"Optional", "Sequence", "Choice"}

\* a Sequence.parse is active
C2_SequenceActive == \E k \in 1..Len(stack) : stack[k].node.kind = "Sequence"

\* b is what is left of a after popping some tokens off its left end
C2_IsSuffix(b, a) == \E n \in 0..Len(a) : b = SubSeq(a, n + 1, Len(a))

\* C2: Sequence.parse terminates and is total: every call of it ends
\* (eventually no Sequence.parse is active any more), and every step of its
\* loop leaves in each deque a suffix of what was there.
C2_SequenceTerminates ==
    /\ <>[](~C2_SequenceActive)
    /\ [][C2_SequenceActive =>
            \A q \in 1..Len(queues) :
                q <= Len(queues') => C2_IsSuffix(queues'[q], queues[q])]_vars

\* C3: Choice is committed.  An exception that left a Choice.parse whose
\* keyword had been consumed stays in flight, unchanged, until it leaves
\* Parser.__call__: no enclosing Optional or Sequence turns it into a result.
C3_ChoiceCommitted ==
    [][(pc = "run" /\ sig.kind = "raise" /\ sig.committed)
         => (sig'.kind = "raise" /\ sig'.exc = sig.exc /\ sig'.msg = sig.msg)]_vars

\* C4: transactional consumption.  Whenever a parse call has raised, the
\* deque it was given holds what it held when that call began.
C4_FailedCallRestoresQueue ==
    sig.kind = "raise" => queues[sig.q] = sig.q0

\* C5: leftover-token detection.  Parser.__call__ returns a SugarNode only
\* with every top-level element parsed in declaration order and the deque
\* empty; with every element parsed and a token left it raises the
\* TemplateSyntaxError whose message is the usage text of the tag, and
\* produces no node.
C5_LeftoverTokens ==
    pc = "done" =>
        /\ outcome.kind = "SugarNode" =>
              /\ Top.i = Len(syntax) + 1
              /\ queues[1] = <<>>
              /\ outcome.pieces = Top.rets
        /\ (Top.i = Len(syntax) + 1 /\ queues[1] # <<>>) =>
              /\ outcome.kind = TemplateSyntaxError
              /\ outcome.pieces = <<>>
              /\ outcome.msg = tag_name \o HasSyntax \o tag_name \o <<" ">>
                     \o join(<<" ">>, [k \in 1..Len(syntax) |-> syntaxOf(syntax[k])])
                     \o Close

\* C5 witness: the grammar [Constant("a")] given two tokens, the first "a":
\* the call ended with a token left over.
C5_Witness ==
    /\ pc = "done"
    /\ syntax = <<Constant(<<"a">>)>>
    /\ Len(contents) = 3
    /\ Top.i = 2
    /\ queues[1] # <<>>
    /\ outcome.kind = TemplateSyntaxError

\* C6: an empty deque where a token is required is a syntax error.  When a
\* top-level Constant, Name, Variable, Model or Choice began with the deque
\* empty and raised, Parser.__call__ fails with TemplateSyntaxError.
C6_EmptyQueueIsSyntaxError ==
    (/\ pc = "done"
     /\ sig.kind = "raise"
     /\ sig.by \in {"Constant", "Name", "Variable", "Model", "Choice"}
     /\ sig.q0 = <<>>)
        => outcome.kind = TemplateSyntaxError

\* C7: an error raised by the expression compiler inside Variable.parse
\* stays in flight, unchanged, until it leaves Parser.__call__, whatever the
\* Variable is nested in.
C7_CompileErrorPropagates ==
    [][(pc = "run" /\ sig.kind = "raise" /\ sig.origin = "compile_filter")
         => (sig'.kind = "raise" /\ sig'.exc = sig.exc /\ sig'.msg = sig.msg
               /\ sig'.origin = "compile_filter")]_vars

\* C8: when every sub-element of an Optional succeeded, the step in which
\* Optional.parse returns leaves in the real deque exactly what is in the
\* snapshot, and returns the captures the sub-elements returned, in
\* sub-element order.
C8_OptionalSuccessReplays ==
    [][(Running("Optional") /\ Top.phase = "loop" /\ Top.i > Len(Top.node.parts))
         => /\ queues'[Top.q] = queues[Top.copy]
            /\ sig'.kind = "return"
            /\ ~sig'.none
            /\ sig'.val = Top.rets]_vars

\* C8 witness: an Optional returned two captures and consumed tokens.
C8_Witness ==
    /\ sig.kind = "return"
    /\ sig.by = "Optional"
    /\ ~sig.none
    /\ Len(sig.val) = 2
    /\ Len(queues[sig.q]) < Len(sig.q0)

C10_NoTokenLost ==
    (pc = "done" /\ outcome.kind = "SugarNode") => Top.used = Tail(contents)

====
